---- MODULE Spec2Model ----
(***************************************************************************)
(* Model of backend/app.py: the run of _detect_and_annotate (open the      *)
(* capture, validate its dimensions, open the encoder, the per-frame loop  *)
(* of detection, track association, speed labelling and summary counters,  *)
(* and the release of capture and encoder).                                 *)
(*                                                                          *)
(* Lengths are kept in half pixels (Unit = 2), so that the centroid        *)
(* x + w/2 of an odd-width box is an integer.  The boxes the detector can  *)
(* return lie on a line of direction (3, 4), on which every centroid       *)
(* distance is a whole number of half pixels and numpy's norm is exact.    *)
(***************************************************************************)
EXTENDS Integers, Sequences, FiniteSets, TLC

(***************************************************************************)
(* Program constants.                                                       *)
(***************************************************************************)
MAX_REPORTED_FRAMES == 50
TRACK_DISTANCE_THRESHOLD == 80
TRACK_MAX_MISSES == 10
SLOW_SPEED_THRESHOLD == 60
FAST_SPEED_THRESHOLD == 150
Unit == 2

MSG_SOURCE == "Unable to open the uploaded video."
MSG_DIMS == "Video metadata could not be read; ensure the file is a valid video."
MSG_SINK == "Unable to initialise the video encoder; ensure FFmpeg is available."
MSG_NOFRAMES == "No frames detected; the uploaded file may be corrupted."
MSG_FAULT == "fault in the frame loop"
MSG_VALUE_FAULT == "ValueError raised in the frame loop"
MSG_NO_FILE == "A file must be provided."
MSG_NOT_VIDEO == "Only video uploads are supported."
MSG_UNEXPECTED == "An unexpected error occurred."
MSG_SUCCESS == "Video processed successfully."

(***************************************************************************)
(* Bounds of the model.                                                     *)
(***************************************************************************)
MaxFrames == 4
LongFrames == 52
MaxOdd == 1

(***************************************************************************)
(* Inputs: the boxes the detector returns, and the lists of boxes a frame   *)
(* can yield.                                                               *)
(***************************************************************************)
BoxAt(t) == [x |-> 80 + 3 * t, y |-> 60 + 4 * t, w |-> 41, h |-> 80]

FrameInputs ==
    { << >>,
      << BoxAt(0) >>, << BoxAt(2) >>, << BoxAt(16) >>, << BoxAt(17) >>,
      << BoxAt(0), BoxAt(17) >>, << BoxAt(2), BoxAt(16) >>,
      << BoxAt(16), BoxAt(2) >>, << BoxAt(17), BoxAt(34) >> }

DefaultFrame == << BoxAt(17) >>
LongInputs == { << >>, << BoxAt(0) >>, DefaultFrame }

Dimensions == { <<0, 0>>, <<0, 480>>, <<640, 0>>, <<640, 480>> }

VARIABLES pc, cap, video_writer, error, width, height,
          total_frames, frames_with_detections, total_detections,
          reported_frames, tracks, labels,
          frame_detections, frames_read, reads, next_id,
          input_file, output_file, status, detail, payload

vars == << pc, cap, video_writer, error, width, height,
           total_frames, frames_with_detections, total_detections,
           reported_frames, tracks, labels,
           frame_detections, frames_read, reads, next_id,
           input_file, output_file, status, detail, payload >>

(***************************************************************************)
(* Pure helpers.                                                            *)
(***************************************************************************)
RECURSIVE SqrtSearch(_, _, _)
SqrtSearch(n, lo, hi) ==
    IF lo >= hi THEN lo
    ELSE LET mid == (lo + hi + 1) \div 2
         IN  IF mid * mid <= n THEN SqrtSearch(n, mid, hi)
             ELSE SqrtSearch(n, lo, mid - 1)

\* numpy.linalg.norm of the difference of two points
Norm(p, q) ==
    LET dx == p[1] - q[1]
        dy == p[2] - q[2]
        n  == dx * dx + dy * dy
        Abs(v) == IF v < 0 THEN -v ELSE v
    IN  SqrtSearch(n, 0, Abs(dx) + Abs(dy))

\* center = [x + w / 2, y + h / 2], in half pixels
Centroid(det) == << 2 * det.x + det.w, 2 * det.y + det.h >>

RECURSIVE SumSeq(_)
SumSeq(s) == IF s = << >> THEN 0 ELSE Head(s) + SumSeq(Tail(s))


(***************************************************************************)
(* Association of the frame's detections with the tracks.  A track is a    *)
(* record with the fields of the program's dict (position,                  *)
(* velocity_samples, misses, last_detection) and history fields that the   *)
(* program does not hold: id (creation number), born and seen (the frame   *)
(* indexes of its creation and of its latest creation or match) and trail  *)
(* (the positions it has had).                                              *)
(***************************************************************************)
NoMatch == [idx |-> 0, dist |-> -1]

\* variant: the comparison of the inner loop reversed
RECURSIVE BestMatchFarthest(_, _, _, _)
BestMatchFarthest(pool, pos, idx, best) ==
    IF idx > Len(pool) THEN best
    ELSE LET distance == Norm(pool[idx][2], pos)
         IN  IF best.idx = 0 \/ distance > best.dist
             THEN BestMatchFarthest(pool, pos, idx + 1, [idx |-> idx, dist |-> distance])
             ELSE BestMatchFarthest(pool, pos, idx + 1, best)

\* the inner loop over unmatched_centers: the first candidate of least distance
RECURSIVE BestMatch(_, _, _, _)
BestMatch(pool, pos, idx, best) ==
    IF idx > Len(pool) THEN best
    ELSE LET distance == Norm(pool[idx][2], pos)
         IN  IF best.idx = 0 \/ distance < best.dist
             THEN BestMatch(pool, pos, idx + 1, [idx |-> idx, dist |-> distance])
             ELSE BestMatch(pool, pos, idx + 1, best)

\* variant: the threshold test made strict
WithinThresholdStrict(distance) == distance < TRACK_DISTANCE_THRESHOLD * Unit

WithinThreshold(distance) == distance <= TRACK_DISTANCE_THRESHOLD * Unit

\* variant: a track is dropped on reaching TRACK_MAX_MISSES
RetainedBelow(misses) == misses < TRACK_MAX_MISSES

Retained(misses) == misses <= TRACK_MAX_MISSES

\* variant: the matched candidate stays in the pool
RemoveNone(s, i) == s

RemoveAt(s, i) == SubSeq(s, 1, i - 1) \o SubSeq(s, i + 1, Len(s))

\* variant: the displacement is measured after position is overwritten
MatchedStale(track, det, center, frame) ==
    [track EXCEPT !.position = center,
                  !.velocity_samples = Append(@, Norm(center, center)),
                  !.misses = 0,
                  !.last_detection = det,
                  !.seen = frame,
                  !.trail = Append(@, center)]

\* variant: a match leaves last_detection as it was
MatchedKeepsBox(track, det, center, frame) ==
    [track EXCEPT !.position = center,
                  !.velocity_samples = Append(@, Norm(center, track.position)),
                  !.misses = 0,
                  !.seen = frame,
                  !.trail = Append(@, center)]

\* the branch of a successful match
Matched(track, det, center, frame) ==
    [track EXCEPT !.position = center,
                  !.velocity_samples = Append(@, Norm(center, track.position)),
                  !.misses = 0,
                  !.last_detection = det,
                  !.seen = frame,
                  !.trail = Append(@, center)]

\* variant: a miss clears the box of the track
MissedDropsBox(track) ==
    [track EXCEPT !.misses = @ + 1,
                  !.last_detection = [x |-> 0, y |-> 0, w |-> 0, h |-> 0]]

\* the else branch: one more miss
Missed(track) == [track EXCEPT !.misses = @ + 1]

\* a track made from a detection that no track claimed
NewTrack(det, center, id, frame) ==
    [position |-> center, velocity_samples |-> << >>, misses |-> 0,
     last_detection |-> det,
     id |-> id, born |-> frame, seen |-> frame, trail |-> << center >>]

\* the loop over tracks: the updated tracks and what is left of the pool
RECURSIVE AssociateTracks(_, _, _, _)
AssociateTracks(trks, pool, updated, frame) ==
    IF trks = << >> THEN [updated |-> updated, pool |-> pool]
    ELSE LET track == Head(trks)
             best  == BestMatch(pool, track.position, 1, NoMatch)
         IN  IF best.idx # 0 /\ WithinThreshold(best.dist)
             THEN AssociateTracks(Tail(trks), RemoveAt(pool, best.idx),
                      Append(updated,
                             Matched(track, pool[best.idx][1], pool[best.idx][2], frame)),
                      frame)
             ELSE LET aged == Missed(track)
                  IN  AssociateTracks(Tail(trks), pool,
                          IF Retained(aged.misses) THEN Append(updated, aged)
                          ELSE updated,
                          frame)

\* variant: only the first unclaimed detection becomes a track
SpawnFirst(pool, nid, frame) ==
    [i \in 1..(IF pool = << >> THEN 0 ELSE 1) |->
        NewTrack(pool[i][1], pool[i][2], nid + i - 1, frame)]

SpawnTracks(pool, nid, frame) ==
    [i \in 1..Len(pool) |-> NewTrack(pool[i][1], pool[i][2], nid + i - 1, frame)]

ZipCenters(dets) == [i \in 1..Len(dets) |-> << dets[i], Centroid(dets[i]) >>]

\* the block under "if centers:"; with no detection the tracks are left alone
UpdateTracks(trks, dets, nid, frame) ==
    IF dets = << >> THEN [tracks |-> trks, spawned |-> 0]
    ELSE LET r == AssociateTracks(trks, ZipCenters(dets), << >>, frame)
         IN  [tracks  |-> r.updated \o SpawnTracks(r.pool, nid, frame),
              spawned |-> Len(r.pool)]

(***************************************************************************)
(* Speed label of a track, as the drawing loop computes it.  The mean is   *)
(* kept as the fraction num / den.                                          *)
(***************************************************************************)
AvgSpeed(samples) ==
    IF samples = << >> THEN [num |-> 0, den |-> 1]
    ELSE [num |-> SumSeq(samples), den |-> Len(samples)]

\* variant: the fast test made strict
SpeedLabelStrict(samples) ==
    LET avg == AvgSpeed(samples)
    IN  IF avg.num > FAST_SPEED_THRESHOLD * Unit * avg.den THEN "fast"
        ELSE IF avg.num <= SLOW_SPEED_THRESHOLD * Unit * avg.den THEN "slow"
        ELSE "normal"

SpeedLabel(samples) ==
    LET avg == AvgSpeed(samples)
    IN  IF avg.num >= FAST_SPEED_THRESHOLD * Unit * avg.den THEN "fast"
        ELSE IF avg.num <= SLOW_SPEED_THRESHOLD * Unit * avg.den THEN "slow"
        ELSE "normal"

LabelsOf(trks) == [i \in 1..Len(trks) |-> SpeedLabel(trks[i].velocity_samples)]

(***************************************************************************)
(* Summary counters of a frame.                                             *)
(***************************************************************************)
\* variant: the cap test made inclusive
ReportInclusive(reported, index, dets) ==
    IF dets # << >> /\ Len(reported) <= MAX_REPORTED_FRAMES
    THEN Append(reported, [frame_index |-> index, count |-> Len(dets), boxes |-> dets])
    ELSE reported

\* variant: frame_index counted from 1
ReportOneBased(reported, index, dets) ==
    IF dets # << >> /\ Len(reported) < MAX_REPORTED_FRAMES
    THEN Append(reported,
                [frame_index |-> index + 1, count |-> Len(dets), boxes |-> dets])
    ELSE reported

Report(reported, index, dets) ==
    IF dets # << >> /\ Len(reported) < MAX_REPORTED_FRAMES
    THEN Append(reported, [frame_index |-> index, count |-> Len(dets), boxes |-> dets])
    ELSE reported

CountFrame(n, dets) == IF dets # << >> THEN n + 1 ELSE n

CountDetections(n, dets) == IF dets # << >> THEN n + Len(dets) ELSE n

(***************************************************************************)
(* The run.                                                                 *)
(***************************************************************************)
Init ==
    /\ pc = "upload"
    /\ cap = "closed"
    /\ video_writer = "none"
    /\ error = "none"
    /\ width = 0
    /\ height = 0
    /\ total_frames = 0
    /\ frames_with_detections = 0
    /\ total_detections = 0
    /\ reported_frames = << >>
    /\ tracks = << >>
    /\ labels = << >>
    /\ frame_detections = << >>
    /\ frames_read = << >>
    /\ reads = 0
    /\ next_id = 1
    /\ input_file = "absent"
    /\ output_file = "absent"
    /\ status = 0
    /\ detail = "none"
    /\ payload = << >>

Counters == << total_frames, frames_with_detections, total_detections,
               reported_frames, tracks, labels, frame_detections, frames_read,
               reads, next_id >>

\* what process_video holds besides the run: the uploaded file and the reply;
\* payload is empty until a summary is returned, and then holds it
Reply == << input_file, status, detail, payload >>

Request == << input_file, output_file, status, detail, payload >>

Fail(msg) == pc' = "failed" /\ error' = msg

\* the exceptions a library call of the loop body can raise: a ValueError or
\* any other Exception
LoopFaults == { MSG_FAULT, MSG_VALUE_FAULT }

\* process_video up to the call of _detect_and_annotate: the two checks of
\* the upload and the copy of it to input_path, which may raise
AcceptUpload ==
    /\ pc = "upload"
    /\ \/ /\ pc' = "rejected"
          /\ \E r \in { <<400, MSG_NO_FILE>>, <<415, MSG_NOT_VIDEO>>,
                         <<500, MSG_UNEXPECTED>> } :
                status' = r[1] /\ detail' = r[2]
          /\ UNCHANGED input_file
       \/ /\ pc' = "start"
          /\ input_file' = "present"
          /\ UNCHANGED << status, detail >>
    /\ UNCHANGED << cap, video_writer, error, width, height, Counters,
                    output_file, payload >>

\* cv2.VideoCapture(path); isOpened() false raises
OpenCapture ==
    /\ pc = "start"
    /\ \/ /\ cap' = "open"
          /\ \E d \in Dimensions : width' = d[1] /\ height' = d[2]
          /\ pc' = "opened"
          /\ error' = error
       \/ /\ Fail(MSG_SOURCE)
          /\ UNCHANGED << cap, width, height >>
    /\ UNCHANGED << video_writer, Counters, Request >>

\* variant: the run fails only when both dimensions are zero
CheckDimensionsBoth ==
    /\ pc = "opened"
    /\ IF width = 0 /\ height = 0
       THEN cap' = "released" /\ Fail(MSG_DIMS)
       ELSE cap' = cap /\ pc' = "dims_ok" /\ error' = error
    /\ UNCHANGED << video_writer, width, height, Counters, Request >>

\* the test of width and height
CheckDimensions ==
    /\ pc = "opened"
    /\ IF width = 0 \/ height = 0
       THEN cap' = "released" /\ Fail(MSG_DIMS)
       ELSE cap' = cap /\ pc' = "dims_ok" /\ error' = error
    /\ UNCHANGED << video_writer, width, height, Counters, Request >>

\* variant: the capture is not released when the encoder cannot be opened
OpenWriterLeak ==
    /\ pc = "dims_ok"
    /\ \/ /\ video_writer' = "open"
          /\ pc' = "loop"
          /\ UNCHANGED << cap, error >>
       \/ /\ Fail(MSG_SINK)
          /\ UNCHANGED << cap, video_writer >>
    /\ UNCHANGED << width, height, Counters, Request >>

\* imageio.get_writer, which may raise
OpenWriter ==
    /\ pc = "dims_ok"
    /\ \/ /\ video_writer' = "open"
          /\ pc' = "loop"
          /\ UNCHANGED << cap, error >>
       \/ /\ cap' = "released"
          /\ Fail(MSG_SINK)
          /\ UNCHANGED video_writer
    /\ UNCHANGED << width, height, Counters, Request >>

\* the effect of one loop body on the tracking state and the counters, up to
\* and including the drawing loop
FrameBody(dets) ==
    LET u == UpdateTracks(tracks, dets, next_id, total_frames)
    IN  /\ frame_detections' = dets
        /\ frames_read' = Append(frames_read, dets)
        /\ reads' = reads + 1
        /\ frames_with_detections' = CountFrame(frames_with_detections, dets)
        /\ total_detections' = CountDetections(total_detections, dets)
        /\ reported_frames' = Report(reported_frames, total_frames, dets)
        /\ tracks' = u.tracks
        /\ next_id' = next_id + u.spawned
        /\ labels' = LabelsOf(u.tracks)

\* the finally block
Release == cap' = "released" /\ video_writer' = "closed"

\* one full iteration of the loop on a frame whose detections are dets
ProcessFrame(dets) ==
    /\ pc = "loop"
    /\ FrameBody(dets)
    /\ total_frames' = total_frames + 1
    /\ output_file' = "present"
    /\ UNCHANGED << pc, cap, video_writer, error, width, height, Reply >>

\* an exception in the loop body: in the detector, before anything is counted,
\* or in the encoder, after the tracks are updated
FaultInFrame(dets, where) ==
    /\ pc = "loop"
    /\ IF where = "detect"
       THEN /\ reads' = reads + 1
            /\ UNCHANGED << frames_with_detections, total_detections,
                            reported_frames, tracks, labels, frame_detections,
                            frames_read, next_id, output_file >>
       ELSE FrameBody(dets) /\ output_file' \in { output_file, "present" }
    /\ Release
    /\ \E msg \in LoopFaults : Fail(msg)
    /\ UNCHANGED << total_frames, width, height, Reply >>

\* variant: the summary is returned whatever total_frames is
EndOfStreamAnySummary ==
    /\ pc = "loop"
    /\ reads' = reads + 1
    /\ Release
    /\ pc' = "done" /\ error' = error
    /\ UNCHANGED << width, height, total_frames, frames_with_detections,
                    total_detections, reported_frames, tracks, labels,
                    frame_detections, frames_read, next_id, Request >>

\* cap.read() returns no frame: break, finally, and the test of total_frames
EndOfStream ==
    /\ pc = "loop"
    /\ reads' = reads + 1
    /\ Release
    /\ IF total_frames = 0
       THEN Fail(MSG_NOFRAMES) /\ output_file' \in { "absent", "present" }
       ELSE pc' = "done" /\ error' = error /\ output_file' = output_file
    /\ UNCHANGED << width, height, total_frames, frames_with_detections,
                    total_detections, reported_frames, tracks, labels,
                    frame_detections, frames_read, next_id, Reply >>

\* the dict that _detect_and_annotate returns
Summary ==
    [total_frames |-> total_frames,
     frames_with_detections |-> frames_with_detections,
     total_detections |-> total_detections,
     reported_frames |-> reported_frames]

\* the messages of the ValueErrors
ValueErrors == { MSG_SOURCE, MSG_DIMS, MSG_SINK, MSG_NOFRAMES, MSG_VALUE_FAULT }

\* variant: the clause for other exceptions does not remove the output file
RespondKeepsOutput ==
    /\ pc \in {"done", "failed"}
    /\ status = 0
    /\ IF pc = "done"
       THEN /\ status' = 200
            /\ detail' = MSG_SUCCESS
            /\ payload' = << Summary >>
            /\ output_file' = output_file
       ELSE /\ IF error \in ValueErrors
               THEN status' = 400 /\ detail' = error /\ output_file' = "absent"
               ELSE status' = 500 /\ detail' = MSG_UNEXPECTED
                    /\ output_file' = output_file
            /\ payload' = payload
    /\ input_file' = "absent"
    /\ UNCHANGED << pc, cap, video_writer, error, width, height, Counters >>

\* process_video after the run: the two except clauses, the finally clause
\* and the reply
Respond ==
    /\ pc \in {"done", "failed"}
    /\ status = 0
    /\ IF pc = "done"
       THEN /\ status' = 200
            /\ detail' = MSG_SUCCESS
            /\ payload' = << Summary >>
            /\ output_file' = output_file
       ELSE /\ IF error \in ValueErrors
               THEN status' = 400 /\ detail' = error
               ELSE status' = 500 /\ detail' = MSG_UNEXPECTED
            /\ payload' = payload
            /\ output_file' = "absent"
    /\ input_file' = "absent"
    /\ UNCHANGED << pc, cap, video_writer, error, width, height, Counters >>

(***************************************************************************)
(* Spec: runs of at most MaxFrames frames, each yielding any of FrameInputs *)
(***************************************************************************)
ReadFrame == \E dets \in FrameInputs : total_frames < MaxFrames /\ ProcessFrame(dets)

FrameFault ==
    \E dets \in FrameInputs, where \in {"detect", "write"} :
        total_frames < MaxFrames /\ FaultInFrame(dets, where)

Next == AcceptUpload \/ OpenCapture \/ CheckDimensions \/ OpenWriter \/ ReadFrame
           \/ FrameFault \/ EndOfStream \/ Respond

Spec == Init /\ [][Next]_vars

(***************************************************************************)
(* SpecLong: runs of at most LongFrames frames that yield DefaultFrame,    *)
(* except for at most MaxOdd frames, which yield any of LongInputs.         *)
(***************************************************************************)
OddFrames(log) == Cardinality({i \in 1..Len(log) : log[i] # DefaultFrame})

LongAdmits(dets) ==
    /\ total_frames < LongFrames
    /\ dets = DefaultFrame \/ OddFrames(frames_read) < MaxOdd

ReadFrameLong == \E dets \in LongInputs : LongAdmits(dets) /\ ProcessFrame(dets)

FrameFaultLong ==
    \E dets \in LongInputs, where \in {"detect", "write"} :
        LongAdmits(dets) /\ FaultInFrame(dets, where)

NextLong == AcceptUpload \/ OpenCapture \/ CheckDimensions \/ OpenWriter
               \/ ReadFrameLong \/ FrameFaultLong \/ EndOfStream \/ Respond

SpecLong == Init /\ [][NextLong]_vars


(***************************************************************************)
(* SpecLabel: the drawing loop's speed label on a track store of one track *)
(* whose velocity_samples is any sequence of at most MaxSamples values of  *)
(* SampleValues (half pixels: 40, 60, 60.5, 80, 100, 149.5, 150, 200 px).   *)
(***************************************************************************)
MaxSamples == 3

SampleValues == {80, 120, 121, 160, 200, 299, 300, 400}

RECURSIVE SeqsUpTo(_, _)
SeqsUpTo(S, n) ==
    IF n = 0 THEN { << >> }
    ELSE LET shorter == SeqsUpTo(S, n - 1)
         IN  shorter \cup { Append(q, v) : q \in shorter, v \in S }

TrackWith(samples) ==
    [NewTrack(BoxAt(0), Centroid(BoxAt(0)), 1, 0) EXCEPT !.velocity_samples = samples]

InitLabel ==
    /\ pc = "draw"
    /\ cap = "open"
    /\ video_writer = "open"
    /\ error = "none"
    /\ width = 640
    /\ height = 480
    /\ total_frames = 0
    /\ frames_with_detections = 0
    /\ total_detections = 0
    /\ reported_frames = << >>
    /\ \E samples \in SeqsUpTo(SampleValues, MaxSamples) : tracks = << TrackWith(samples) >>
    /\ labels = << >>
    /\ frame_detections = << >>
    /\ frames_read = << >>
    /\ reads = 0
    /\ next_id = 2
    /\ input_file = "present"
    /\ output_file = "present"
    /\ status = 0
    /\ detail = "none"
    /\ payload = << >>

\* the loop "for track in tracks" that computes avg_speed and label
Annotate ==
    /\ pc = "draw"
    /\ labels' = LabelsOf(tracks)
    /\ pc' = "drawn"
    /\ UNCHANGED << cap, video_writer, error, width, height, total_frames,
                    frames_with_detections, total_detections, reported_frames,
                    tracks, frame_detections, frames_read, reads, next_id,
                    Request >>

NextLabel == Annotate

SpecLabel == InitLabel /\ [][NextLabel]_vars

(***************************************************************************)
(* Vocabulary of the properties.                                            *)
(***************************************************************************)
\* a frame has just been taken through the loop body
FrameStep == pc = "loop" /\ frames_read' # frames_read

\* the run is between frames or has returned its summary
Settled == pc \in {"loop", "done"}

\* the index of the frame processed last
LastFrame == total_frames - 1

Present(trks, id) == \E j \in DOMAIN trks : trks[j].id = id

Program(track) ==
    [position |-> track.position, velocity_samples |-> track.velocity_samples,
     misses |-> track.misses, last_detection |-> track.last_detection]

ProgramView(trks) == [i \in DOMAIN trks |-> Program(trks[i])]

\* C1 (as claimed): a frame with zero detections ages the track store: every
\* track's misses grows by one and the tracks whose misses then exceeds
\* TRACK_MAX_MISSES are dropped, the others kept as they were.
C1_EmptyFrameAges ==
    [][ (FrameStep /\ frame_detections' = << >>) =>
          ProgramView(tracks') =
             SelectSeq([i \in DOMAIN tracks |->
                           [Program(tracks[i]) EXCEPT !.misses = @ + 1]],
                       LAMBDA t : t.misses <= TRACK_MAX_MISSES) ]_vars

\* C2 (as claimed): a track with no velocity sample is labelled normal.
C2_NoSampleIsNormal ==
    \A i \in DOMAIN labels :
        tracks[i].velocity_samples = << >> => labels[i] = "normal"

\* C3: for a non-empty velocity_samples the label is decided by the mean alone:
\* fast exactly when mean >= 150, slow exactly when mean <= 60, normal exactly
\* when 60 < mean < 150.
C3_LabelByMean ==
    \A i \in DOMAIN labels :
        LET s   == tracks[i].velocity_samples
            sum == SumSeq(s)
            n   == Len(s)
        IN  s # << >> =>
              /\ labels[i] \in {"fast", "slow", "normal"}
              /\ labels[i] = "fast" <=> sum >= 150 * Unit * n
              /\ labels[i] = "slow" <=> sum <= 60 * Unit * n
              /\ labels[i] = "normal" <=> (60 * Unit * n < sum /\ sum < 150 * Unit * n)

\* a mean of exactly 150 over several samples, labelled fast
C3_MeanAtFastBoundary ==
    \E i \in DOMAIN labels :
        /\ Len(tracks[i].velocity_samples) >= 2
        /\ tracks[i].velocity_samples[1] # tracks[i].velocity_samples[2]
        /\ SumSeq(tracks[i].velocity_samples) = 150 * Unit * Len(tracks[i].velocity_samples)
        /\ labels[i] = "fast"


\* the track of tracks with this id was created or matched in the frame that
\* the step processes
MatchedNow(id) ==
    \E j \in DOMAIN tracks' : tracks'[j].id = id /\ tracks'[j].seen = total_frames

\* C4: misses never leaves 0..TRACK_MAX_MISSES in the track store; a track
\* that misses a frame is kept, with one more miss, when that makes at most 10
\* misses, and is removed in that very frame when it makes 11.
C4_EvictionBoundary ==
    /\ [](\A i \in DOMAIN tracks :
             0 <= tracks[i].misses /\ tracks[i].misses <= TRACK_MAX_MISSES)
    /\ [][ (FrameStep /\ frame_detections' # << >>) =>
             \A i \in DOMAIN tracks :
                 ~MatchedNow(tracks[i].id) =>
                    IF tracks[i].misses + 1 <= 10
                    THEN \E j \in DOMAIN tracks' :
                            /\ tracks'[j].id = tracks[i].id
                            /\ tracks'[j].misses = tracks[i].misses + 1
                    ELSE ~Present(tracks', tracks[i].id) ]_vars

\* a track has been evicted while another is still stored
C4_Evicted ==
    /\ \E id \in 1..(next_id - 1) : ~Present(tracks, id)
    /\ tracks # << >>

\* C5: a track created in some frame and matched in every frame since, k
\* frames in all, has misses 0 and k - 1 velocity samples, the i-th being the
\* distance between its i-th and (i+1)-th positions.
C5_MatchedEveryFrame ==
    Settled =>
      \A i \in DOMAIN tracks :
          LET t == tracks[i]
              k == total_frames - t.born
          IN  Len(t.trail) = k =>
                /\ t.misses = 0
                /\ Len(t.velocity_samples) = k - 1
                /\ \A n \in 1..(k - 1) :
                       t.velocity_samples[n] = Norm(t.trail[n + 1], t.trail[n])

\* a track matched in three frames after its creation, first over 10 pixels
C5_FourFrames ==
    /\ Settled
    /\ \E i \in DOMAIN tracks :
          /\ total_frames - tracks[i].born = 4
          /\ Len(tracks[i].trail) = 4
          /\ tracks[i].velocity_samples[1] = 10 * Unit
          /\ tracks[i].trail[1] = << 201, 200 >>
          /\ tracks[i].trail[2] = << 213, 216 >>

\* C6: after a frame, no detection of that frame is the last_detection of two
\* tracks created or matched in it, and no track is stored twice.
C6_OneToOne ==
    (Settled /\ total_frames >= 1) =>
      /\ \A j \in DOMAIN frame_detections :
            Cardinality({i \in DOMAIN tracks :
                            /\ tracks[i].seen = LastFrame
                            /\ tracks[i].last_detection = frame_detections[j]}) <= 1
      /\ \A i, j \in DOMAIN tracks : tracks[i].id = tracks[j].id => i = j

\* a detection within the threshold of two tracks went to one of them alone
C6_Contested ==
    /\ Settled
    /\ Len(frame_detections) = 1
    /\ \E i, j \in DOMAIN tracks :
          /\ tracks[i].seen = LastFrame
          /\ tracks[i].born < LastFrame
          /\ tracks[i].last_detection = frame_detections[1]
          /\ tracks[j].seen < LastFrame
          /\ WithinThreshold(Norm(tracks[j].position, tracks[i].position))

\* every detection farther than the threshold from every track spawns a track
FarSpawns ==
    \A j \in DOMAIN frame_detections' :
        LET det    == frame_detections'[j]
            center == Centroid(det)
        IN  (\A i \in DOMAIN tracks :
                Norm(center, tracks[i].position) > TRACK_DISTANCE_THRESHOLD * Unit)
            => \E k \in DOMAIN tracks' :
                  /\ tracks'[k].id >= next_id
                  /\ tracks'[k].position = center
                  /\ tracks'[k].velocity_samples = << >>
                  /\ tracks'[k].misses = 0
                  /\ tracks'[k].last_detection = det

Extends(i, det) ==
    /\ \E k \in DOMAIN tracks' :
          /\ tracks'[k].id = tracks[i].id
          /\ tracks'[k].seen = total_frames
          /\ tracks'[k].last_detection = det
          /\ tracks'[k].position = Centroid(det)
    /\ ~\E k \in DOMAIN tracks' :
          tracks'[k].id >= next_id /\ tracks'[k].last_detection = det

\* C7 (as claimed): a far detection spawns a track, and a detection closer
\* than the threshold to a track extends that track and spawns none.
C7_NearExtendsThatTrack ==
    [][ FrameStep =>
          /\ FarSpawns
          /\ \A j \in DOMAIN frame_detections', i \in DOMAIN tracks :
                Norm(Centroid(frame_detections'[j]), tracks[i].position)
                      < TRACK_DISTANCE_THRESHOLD * Unit
                   => Extends(i, frame_detections'[j]) ]_vars

\* C7 (amended): a far detection spawns a track, and the only detection of a
\* frame, when at most the threshold away from some track, extends the first
\* such track of the store and spawns none.
C7_OnlyDetectionExtendsFirstNear ==
    [][ FrameStep =>
          /\ FarSpawns
          /\ Len(frame_detections') = 1 =>
                \A i \in DOMAIN tracks :
                    LET near(n) == Norm(Centroid(frame_detections'[1]), tracks[n].position)
                                      <= TRACK_DISTANCE_THRESHOLD * Unit
                    IN  (near(i) /\ \A n \in 1..(i - 1) : ~near(n))
                           => Extends(i, frame_detections'[1]) /\ next_id' = next_id ]_vars

\* a lone detection exactly 80 pixels from the first track extended it, in a
\* run where an earlier far detection had spawned the second track
C7_ExtendedAtThreshold ==
    /\ Settled
    /\ Len(frame_detections) = 1
    /\ Len(tracks) >= 2
    /\ tracks[1].seen = LastFrame
    /\ tracks[1].born < LastFrame
    /\ tracks[1].velocity_samples[Len(tracks[1].velocity_samples)]
          = TRACK_DISTANCE_THRESHOLD * Unit
    /\ tracks[2].born > tracks[1].born

\* C8: reported_frames never holds more than MAX_REPORTED_FRAMES entries,
\* total_detections is the number of detections of all frames processed and
\* frames_with_detections the number of frames with a detection.
C8_CapAndTotals ==
    /\ Len(reported_frames) <= MAX_REPORTED_FRAMES
    /\ total_detections = SumSeq([i \in DOMAIN frames_read |-> Len(frames_read[i])])
    /\ frames_with_detections =
          Cardinality({i \in DOMAIN frames_read : frames_read[i] # << >>})

\* more than 50 frames had detections, one frame had none
C8_BeyondCap ==
    /\ pc = "done"
    /\ frames_with_detections > MAX_REPORTED_FRAMES
    /\ total_detections > MAX_REPORTED_FRAMES
    /\ total_frames > frames_with_detections
    /\ Len(reported_frames) = MAX_REPORTED_FRAMES

C10_InvalidDimensions ==
    (cap # "closed" /\ pc # "opened" /\ (width = 0 \/ height = 0)) =>
        /\ pc = "failed"
        /\ error = MSG_DIMS
        /\ reads = 0
        /\ frames_read = << >>
        /\ total_frames = 0
        /\ video_writer = "none"

\* a capture of width 640 and height 0 has failed
C10_ZeroHeight ==
    /\ pc = "failed"
    /\ error = MSG_DIMS
    /\ width = 640
    /\ height = 0
    /\ cap = "released"


\* C11: a run whose capture has valid dimensions and ends its stream before
\* any frame fails with the no-frames message, and a summary is returned only
\* with total_frames >= 1.
C11_NoUsableFrames ==
    /\ [](pc = "done" => total_frames >= 1 /\ error = "none")
    /\ [](payload # << >> => payload[1].total_frames >= 1)
    /\ [][ (pc = "loop" /\ total_frames = 0 /\ reads' = reads + 1
              /\ frames_read' = frames_read /\ error' \notin LoopFaults)
           => (pc' = "failed" /\ error' = MSG_NOFRAMES) ]_vars

\* the stream of a 640 x 480 capture ended at the first read
C11_EmptyStream ==
    /\ pc = "failed"
    /\ error = MSG_NOFRAMES
    /\ width = 640
    /\ height = 480
    /\ reads = 1
    /\ total_frames = 0
    /\ video_writer = "closed"


\* C12: when the request has been answered the uploaded file is gone, and
\* after a failed run there is no output file and no summary in the reply.
C12_FilesCleaned ==
    status # 0 =>
        /\ input_file = "absent"
        /\ pc = "failed" => (output_file = "absent" /\ payload = << >>)
        /\ pc = "done" => (output_file = "present" /\ payload = << Summary >>)

\* an exception that is no ValueError, in the third frame, answered with 500
C12_FaultAnswered ==
    /\ pc = "failed"
    /\ error = MSG_FAULT
    /\ total_frames = 2
    /\ status = 500
    /\ output_file = "absent"
    /\ input_file = "absent"

\* C13 (as claimed): a failed run is answered with the message of its own
\* kind: each of the four ValueErrors of the run with its message, and a
\* fault of the frame loop with the generic message only, never as a 400
\* with a message of its own.
C13_FailureKinds ==
    (status # 0 /\ pc = "failed") =>
        /\ error \in { MSG_SOURCE, MSG_DIMS, MSG_SINK, MSG_NOFRAMES }
              => (status = 400 /\ detail = error)
        /\ error \in LoopFaults
              => (status = 500 /\ detail = MSG_UNEXPECTED)


\* the detections of the frame that the tracks of these ids claim in the step
ClaimedBy(ids) ==
    { tracks'[k].last_detection :
         k \in { n \in DOMAIN tracks' :
                    tracks'[n].id \in ids /\ tracks'[n].seen = total_frames } }

\* C14: in store order, each track takes a detection of least distance among
\* those that no earlier track has claimed, when that distance is at most 80,
\* and otherwise takes none; a detection claimed by an earlier track is never
\* given to a later one.
C14_GreedyInOrder ==
    [][ FrameStep =>
          \A i \in DOMAIN tracks :
              LET dets    == frame_detections'
                  earlier == { tracks[n].id : n \in 1..(i - 1) }
                  rem     == { j \in DOMAIN dets : dets[j] \notin ClaimedBy(earlier) }
                  dist(j) == Norm(Centroid(dets[j]), tracks[i].position)
                  least   == { j \in rem : \A m \in rem : dist(j) <= dist(m) }
              IN  IF \E j \in least : dist(j) <= 80 * Unit
                  THEN \E k \in DOMAIN tracks', j \in least :
                          /\ tracks'[k].id = tracks[i].id
                          /\ tracks'[k].seen = total_frames
                          /\ tracks'[k].last_detection = dets[j]
                  ELSE ~MatchedNow(tracks[i].id) ]_vars

\* the first track took a detection 80 pixels away although the second track,
\* which then missed, was 5 pixels from it
C14_EarlierTrackWins ==
    /\ Settled
    /\ Len(frame_detections) = 1
    /\ Len(tracks) = 2
    /\ tracks[1].seen = LastFrame
    /\ tracks[1].last_detection = frame_detections[1]
    /\ tracks[1].velocity_samples = << 80 * Unit >>
    /\ tracks[2].misses = 1
    /\ tracks[2].seen = LastFrame - 1
    /\ Norm(tracks[2].position, tracks[1].position) = 5 * Unit


\* C15: a track that a frame neither matches nor evicts keeps its position,
\* velocity_samples and last_detection; only misses may differ.
C15_UnmatchedKeepsBox ==
    [][ FrameStep =>
          \A i \in DOMAIN tracks, j \in DOMAIN tracks' :
              (tracks'[j].id = tracks[i].id /\ tracks'[j].seen # total_frames) =>
                 /\ tracks'[j].position = tracks[i].position
                 /\ tracks'[j].velocity_samples = tracks[i].velocity_samples
                 /\ tracks'[j].last_detection = tracks[i].last_detection
                 /\ tracks'[j].misses \in { tracks[i].misses, tracks[i].misses + 1 } ]_vars

\* a track matched once and missed twice still has the box of its match
C15_StaleBox ==
    /\ Settled
    /\ frame_detections # << >>
    /\ \E i \in DOMAIN tracks :
          /\ tracks[i].misses = 2
          /\ Len(tracks[i].velocity_samples) = 1
          /\ tracks[i].seen = LastFrame - 2
          /\ \A j \in DOMAIN frame_detections :
                 frame_detections[j] # tracks[i].last_detection

\* the indexes, in order, of the frames read that had a detection
WithDetections(log) ==
    SelectSeq([i \in DOMAIN log |-> i], LAMBDA i : log[i] # << >>)

\* C16: reported_frames is the first min(50, frames_with_detections) frames
\* that had a detection, in order, each with its 0-based index, its boxes and
\* their number, which is at least 1; the indexes increase strictly.
C16_FirstFiftyInOrder ==
    LET idx == WithDetections(frames_read)
        n   == IF Len(idx) < 50 THEN Len(idx) ELSE 50
    IN  /\ Len(idx) = frames_with_detections
        /\ reported_frames =
              [k \in 1..n |-> [frame_index |-> idx[k] - 1,
                               count       |-> Len(frames_read[idx[k]]),
                               boxes       |-> frames_read[idx[k]]]]
        /\ \A k \in DOMAIN reported_frames :
              /\ reported_frames[k].count >= 1
              /\ reported_frames[k].count = Len(reported_frames[k].boxes)
              /\ k > 1 => reported_frames[k - 1].frame_index
                             < reported_frames[k].frame_index

\* a frame without detection among the first ones: the 50th entry is frame
\* 50, and the 51st frame with a detection is not reported
C16_SkippedAndCapped ==
    /\ Len(reported_frames) = 50
    /\ reported_frames[50].frame_index = 50
    /\ reported_frames[1].frame_index = 0
    /\ frames_with_detections = 51
    /\ total_frames = 52

\* C17: after a frame with n >= 1 detections each detection is the
\* last_detection of exactly one track with misses 0, a track matched or
\* created in that frame, and exactly n tracks were matched or created in it.
C17_NoDetectionLost ==
    (Settled /\ total_frames >= 1 /\ frame_detections # << >>) =>
      /\ \A j \in DOMAIN frame_detections :
            LET holders == { i \in DOMAIN tracks :
                                /\ tracks[i].last_detection = frame_detections[j]
                                /\ tracks[i].misses = 0 }
            IN  /\ Cardinality(holders) = 1
                /\ \A i \in holders : tracks[i].seen = LastFrame
      /\ Cardinality({ i \in DOMAIN tracks : tracks[i].seen = LastFrame })
            = Len(frame_detections)

\* of two detections one went to an older track and the other made a track,
\* while a third track missed
C17_MatchedAndCreated ==
    /\ Settled
    /\ Len(frame_detections) = 2
    /\ \E i, j, k \in DOMAIN tracks :
          /\ tracks[i].seen = LastFrame /\ tracks[i].born < LastFrame
          /\ tracks[j].born = LastFrame
          /\ tracks[k].seen < LastFrame

\* C18: every track has a box, and its position is the centroid
\* (x + w/2, y + h/2) of that box; a frame changes position or last_detection
\* of a track only by matching it to one of its detections, and then writes
\* both.
C18_PositionIsBoxCentre ==
    /\ [](\A i \in DOMAIN tracks :
             LET box == tracks[i].last_detection
             IN  /\ box.w > 0 /\ box.h > 0
                 /\ tracks[i].position = << 2 * box.x + box.w, 2 * box.y + box.h >>)
    /\ [][ FrameStep =>
             \A i \in DOMAIN tracks, j \in DOMAIN tracks' :
                 (/\ tracks'[j].id = tracks[i].id
                  /\ \/ tracks'[j].position # tracks[i].position
                     \/ tracks'[j].last_detection # tracks[i].last_detection)
                 => /\ tracks'[j].seen = total_frames
                    /\ tracks'[j].last_detection \in
                           { frame_detections'[n] : n \in DOMAIN frame_detections' }
                    /\ tracks'[j].position = Centroid(tracks'[j].last_detection) ]_vars

\* a track that moved to another box and has missed since
C18_MovedThenMissed ==
    \E i \in DOMAIN tracks :
        /\ Len(tracks[i].trail) = 2
        /\ tracks[i].trail[1] # tracks[i].position
        /\ tracks[i].misses >= 1
        /\ tracks[i].last_detection = BoxAt(0)

====
